---- MODULE Spec2Model ----
(***************************************************************************)
(* Model of the synthetic-cohort pipeline (backend/pipeline.py) with the   *)
(* helpers it imports (backend/openai_utils.py, backend/data_ingest.py).   *)
(*                                                                         *)
(* Text is a sequence of one-character strings, so that the string         *)
(* methods the code uses (splitlines, lstrip, strip, count, split, upper,  *)
(* lower, title, isidentifier) are computed character by character.        *)
(***************************************************************************)
EXTENDS Integers, Sequences, FiniteSets, TLC

(***************************************************************************)
(* Bounds of the model.                                                    *)
(***************************************************************************)
\* openai_utils.py:20 reads MAX_PATIENTS from the deployment's secrets
\* (default 500); the model runs with a small configured cap.
MAX_PATIENTS == 2
\* Longest schema text, in lines, given to the schema parser.
MaxLines == 2

(***************************************************************************)
(* Python string methods                                                   *)
(***************************************************************************)
LowerLetters ==
  <<"a","b","c","d","e","f","g","h","i","j","k","l","m","n","o","p","q","r","s","t","u","v","w","x","y","z">>
UpperLetters ==
  <<"A","B","C","D","E","F","G","H","I","J","K","L","M","N","O","P","Q","R","S","T","U","V","W","X","Y","Z">>
Digits == <<"0","1","2","3","4","5","6","7","8","9">>

Range(s) == {s[i] : i \in DOMAIN s}
IsLower(c) == c \in Range(LowerLetters)
IsUpper(c) == c \in Range(UpperLetters)
IsDigit(c) == c \in Range(Digits)
\* str.splitlines(): the line boundary of the alphabet the model draws text from
IsLineBreak(c) == c = "\n"

IndexIn(c, tbl) == CHOOSE i \in DOMAIN tbl : tbl[i] = c
UpperChar(c) == IF IsLower(c) THEN UpperLetters[IndexIn(c, LowerLetters)] ELSE c
LowerChar(c) == IF IsUpper(c) THEN LowerLetters[IndexIn(c, UpperLetters)] ELSE c

\* str.upper(), str.lower()
Upper(s) == [i \in DOMAIN s |-> UpperChar(s[i])]
Lower(s) == [i \in DOMAIN s |-> LowerChar(s[i])]

\* str.title(): a cased character is upper-cased when it follows an uncased
\* one (or starts the string) and lower-cased otherwise.
Title(s) ==
  [i \in DOMAIN s |->
     IF i = 1 \/ ~(IsLower(s[i-1]) \/ IsUpper(s[i-1]))
     THEN UpperChar(s[i]) ELSE LowerChar(s[i])]

\* str.lstrip(chars)
RECURSIVE LStripChars(_, _)
LStripChars(s, chars) ==
  IF s # <<>> /\ Head(s) \in chars THEN LStripChars(Tail(s), chars) ELSE s

RECURSIVE RStripChars(_, _)
RStripChars(s, chars) ==
  IF s # <<>> /\ s[Len(s)] \in chars
  THEN RStripChars(SubSeq(s, 1, Len(s) - 1), chars) ELSE s

\* str.strip()
Whitespace == {" ", "\t", "\n"}
Strip(s) == RStripChars(LStripChars(s, Whitespace), Whitespace)

\* str.count(c) for a one-character c
Count(s, c) == Cardinality({i \in DOMAIN s : s[i] = c})

\* str.split(c, 1) on a string known to hold c: <<before, after>>
SplitOnce(s, c) ==
  LET k == CHOOSE i \in DOMAIN s : s[i] = c /\ \A j \in 1..(i-1) : s[j] # c
  IN  <<SubSeq(s, 1, k - 1), SubSeq(s, k + 1, Len(s))>>

\* str.isidentifier() on the ASCII alphabet
IsIdentStart(c) == IsLower(c) \/ IsUpper(c) \/ c = "_"
IsIdentifier(s) ==
  /\ s # <<>>
  /\ IsIdentStart(s[1])
  /\ \A i \in DOMAIN s : IsIdentStart(s[i]) \/ IsDigit(s[i])

\* str.splitlines(): the lines between line boundaries; a final boundary
\* opens no further line.
RECURSIVE SplitLinesFrom(_, _)
SplitLinesFrom(s, cur) ==
  IF s = <<>> THEN (IF cur = <<>> THEN <<>> ELSE <<cur>>)
  ELSE IF IsLineBreak(Head(s)) THEN <<cur>> \o SplitLinesFrom(Tail(s), <<>>)
  ELSE SplitLinesFrom(Tail(s), Append(cur, Head(s)))
SplitLines(s) == SplitLinesFrom(s, <<>>)

(***************************************************************************)
(* pipeline.py: _parse_extra_schema                                        *)
(***************************************************************************)
T_int   == <<"i","n","t">>
T_float == <<"f","l","o","a","t">>
T_str   == <<"s","t","r">>
AllowedTypes == {T_int, T_float, T_str}

\* the characters of raw.lstrip("•*✓- ") that the model's alphabet holds
BulletChars == {"*", "-", " "}

ParseOk(cols)   == [ok |-> TRUE,  err |-> "",   cols |-> cols]
ParseFail(kind) == [ok |-> FALSE, err |-> kind, cols |-> <<>>]

\* ParseLine without line 45 (typ.lower()): a type is matched as written
ParseLine_NoLower(raw) ==
  LET ln == Strip(LStripChars(raw, BulletChars)) IN
  IF ln = <<>> THEN [kind |-> "skip", col |-> <<>>]
  ELSE IF Count(ln, ":") # 1 THEN [kind |-> "colon", col |-> <<>>]
  ELSE LET parts == SplitOnce(ln, ":")
           name  == Strip(parts[1])
           typ   == Strip(parts[2])
       IN  IF ~IsIdentifier(name) THEN [kind |-> "name", col |-> <<>>]
           ELSE IF typ \notin AllowedTypes THEN [kind |-> "type", col |-> <<>>]
           ELSE [kind |-> "col", col |-> <<name, typ>>]

\* The loop body, lines 33-49, on one raw line: "skip" (blank), "col"
\* (a column was appended) or the ValueError raised.
ParseLine(raw) ==
  LET ln == Strip(LStripChars(raw, BulletChars)) IN
  IF ln = <<>> THEN [kind |-> "skip", col |-> <<>>]
  ELSE IF Count(ln, ":") # 1 THEN [kind |-> "colon", col |-> <<>>]
  ELSE LET parts == SplitOnce(ln, ":")
           name  == Strip(parts[1])
           typ   == Lower(Strip(parts[2]))
       IN  IF ~IsIdentifier(name) THEN [kind |-> "name", col |-> <<>>]
           ELSE IF typ \notin AllowedTypes THEN [kind |-> "type", col |-> <<>>]
           ELSE [kind |-> "col", col |-> <<name, typ>>]

RECURSIVE ParseLines(_, _)
ParseLines(lines, cols) ==
  IF lines = <<>>
  THEN (IF cols = <<>> THEN ParseFail("nocols") ELSE ParseOk(cols))
  ELSE LET r == ParseLine(Head(lines)) IN
       CASE r.kind = "skip" -> ParseLines(Tail(lines), cols)
         [] r.kind = "col"  -> ParseLines(Tail(lines), Append(cols, r.col))
         [] OTHER           -> ParseFail(r.kind)

parse_extra_schema(text) == ParseLines(SplitLines(text), <<>>)

(***************************************************************************)
(* Decoded JSON values (json.loads): t is the Python type of the value,    *)
(* s its text (str) or fractional digits (float), i its integral part.     *)
(***************************************************************************)
JStr(s)      == [t |-> "str",   s |-> s,    i |-> 0]
JInt(i)      == [t |-> "int",   s |-> <<>>, i |-> i]
JFloat(i, f) == [t |-> "float", s |-> f,    i |-> i]
JBool(b)     == [t |-> "bool",  s |-> <<>>, i |-> IF b THEN 1 ELSE 0]

\* int("42"): the value of a string of decimal digits
RECURSIVE DigitsValue(_, _)
DigitsValue(s, acc) ==
  IF s = <<>> THEN acc
  ELSE DigitsValue(Tail(s), 10 * acc + (IndexIn(Head(s), Digits) - 1))
IsDigitString(s) == s # <<>> /\ \A k \in DOMAIN s : IsDigit(s[k])

\* str(n) for n >= 0, as csv.writer renders a number
RECURSIVE IntToStr(_)
IntToStr(n) ==
  IF n < 10 THEN <<Digits[n + 1]>>
  ELSE IntToStr(n \div 10) \o <<Digits[(n % 10) + 1]>>

(***************************************************************************)
(* pipeline.py: PatientRow (pydantic model, lax mode)                      *)
(***************************************************************************)
F_patient_id == <<"p","a","t","i","e","n","t","_","i","d">>
F_age        == <<"a","g","e">>
F_sex        == <<"s","e","x">>
F_race       == <<"r","a","c","e">>
F_ethnicity  == <<"e","t","h","n","i","c","i","t","y">>
F_icd10_code == <<"i","c","d","1","0","_","c","o","d","e">>
F_diagnosis  == <<"d","i","a","g","n","o","s","i","s">>

\* PatientRow.model_fields.keys(), in declaration order (lines 60-66)
CoreFields ==
  <<F_patient_id, F_age, F_sex, F_race, F_ethnicity, F_icd10_code, F_diagnosis>>

Has(r, k) == k \in DOMAIN r
\* dict.get(k, "")
Get(r, k) == IF Has(r, k) THEN r[k] ELSE JStr(<<>>)

\* a str field accepts only a str
StrFieldOk(r, k) == Has(r, k) /\ r[k].t = "str"

\* an int field in lax mode: an int, a float without fraction, or a string
\* of digits; the value it is coerced to
IntCoercible(v) ==
  \/ v.t = "int"
  \/ v.t = "float" /\ \A k \in DOMAIN v.s : v.s[k] = "0"
  \/ v.t = "str" /\ IsDigitString(v.s)
IntCoerce(v) == IF v.t = "str" THEN DigitsValue(v.s, 0) ELSE v.i

\* _age_ok, lines 68-73
age_ok(v) == 0 <= v /\ v <= 120

\* _sex_ok, lines 75-81
sex_ok(v) == Upper(v) \in {<<"F">>, <<"M">>}
sex_value(v) == Upper(v)

\* _eth_ok, lines 83-89
EthAllowed ==
  { <<"H","I","S","P","A","N","I","C"," ","O","R"," ","L","A","T","I","N","O">>,
    <<"N","O","T"," ","H","I","S","P","A","N","I","C"," ","O","R"," ","L","A","T","I","N","O">> }
eth_ok(v) == Upper(v) \in EthAllowed
eth_value(v) == Title(v)

\* _upper, lines 91-94 (mode="before": applied to the raw value)
icd_upper(v) == Strip(Upper(v))

\* PatientRow.model_validate(r): "attr" when the before-validator calls
\* .upper() on a value that is no str (AttributeError, which pydantic does
\* not turn into a ValidationError), "invalid" for a ValidationError, else
\* "ok" with the validated model.
NoCore ==
  [patient_id |-> <<>>, age |-> 0, sex |-> <<>>, race |-> <<>>,
   ethnicity |-> <<>>, icd10_code |-> <<>>, diagnosis |-> <<>>]

model_validate(r) ==
  IF Has(r, F_icd10_code) /\ r[F_icd10_code].t # "str"
  THEN [res |-> "attr", core |-> NoCore]
  ELSE IF /\ StrFieldOk(r, F_patient_id)
          /\ Has(r, F_age) /\ IntCoercible(r[F_age]) /\ age_ok(IntCoerce(r[F_age]))
          /\ StrFieldOk(r, F_sex) /\ sex_ok(r[F_sex].s)
          /\ StrFieldOk(r, F_race)
          /\ StrFieldOk(r, F_ethnicity) /\ eth_ok(r[F_ethnicity].s)
          /\ StrFieldOk(r, F_icd10_code)
          /\ StrFieldOk(r, F_diagnosis)
       THEN [res |-> "ok",
             core |-> [patient_id |-> r[F_patient_id].s,
                       age        |-> IntCoerce(r[F_age]),
                       sex        |-> sex_value(r[F_sex].s),
                       race       |-> r[F_race].s,
                       ethnicity  |-> eth_value(r[F_ethnicity].s),
                       icd10_code |-> icd_upper(r[F_icd10_code].s),
                       diagnosis  |-> r[F_diagnosis].s]]
       ELSE [res |-> "invalid", core |-> NoCore]

\* isinstance checks of the extra-column loop, lines 217-222
\* (bool is a subclass of int in Python)
IsInstanceInt(v)   == v.t \in {"int", "bool"}
IsInstanceFloat(v) == v.t \in {"int", "bool", "float"}
IsInstanceStr(v)   == v.t = "str"
TypeMatches(typ, v) ==
  /\ typ = T_int   => IsInstanceInt(v)
  /\ typ = T_float => IsInstanceFloat(v)
  /\ typ = T_str   => IsInstanceStr(v)

(***************************************************************************)
(* Requests and completion replies the model draws from                    *)
(***************************************************************************)
C_J47   == <<"J","4","7">>
C_j47   == <<"j","4","7">>
C_K50   == <<"K","5","0">>
L_Asthma == <<"A","s","t","h","m","a">>
E_Hisp    == <<"H","i","s","p","a","n","i","c"," ","o","r"," ","L","a","t","i","n","o">>
E_NotHisp == <<"N","o","t"," ","H","i","s","p","a","n","i","c"," ","o","r"," ","L","a","t","i","n","o">>
E_lower   == <<"n","o","t"," ","h","i","s","p","a","n","i","c"," ","o","r"," ","l","a","t","i","n","o">>

\* one decoded JSON object of the reply: a mapping from key to value
Row(id, age, sex, eth, icd) ==
  [k \in Range(CoreFields) |->
     CASE k = F_patient_id -> JStr(id)
       [] k = F_age        -> age
       [] k = F_sex        -> JStr(sex)
       [] k = F_race       -> JStr(<<"W">>)
       [] k = F_ethnicity  -> JStr(eth)
       [] k = F_icd10_code -> icd
       [] OTHER            -> JStr(<<"A">>)]

RowGood1   == Row(<<"P","1">>, JInt(30), <<"F">>, E_Hisp, JStr(C_J47))
RowGood2   == Row(<<"P","2">>, JInt(0), <<"M">>, E_NotHisp, JStr(C_J47))
\* accepted by the validators, but not in canonical form
RowLax     == Row(<<"P","3">>, JStr(<<"4","2">>), <<"f">>, E_lower,
                  JStr(<<" ","j","4","7"," ">>))
RowEmptyId == Row(<<>>, JInt(120), <<"M">>, E_Hisp, JStr(C_J47))
RowOldAge  == Row(<<"P","4">>, JInt(121), <<"F">>, E_Hisp, JStr(C_J47))
RowWrongIcd == Row(<<"P","5">>, JInt(30), <<"F">>, E_Hisp, JStr(C_K50))

RowCatalogue ==
  {RowGood1, RowGood2, RowLax, RowEmptyId, RowOldAge, RowWrongIcd}

RECURSIVE SeqsUpTo(_, _)
SeqsUpTo(S, n) ==
  IF n = 0 THEN {<<>>}
  ELSE LET shorter == SeqsUpTo(S, n - 1)
       IN  shorter \cup {Append(s, x) : s \in {q \in shorter : Len(q) = n - 1}, x \in S}

\* What chat() can give back: an exception of the client, a text that is
\* no JSON, a JSON scalar, or a JSON array of objects.
NoReply == [kind |-> "none", rows |-> <<>>]
Replies ==
  {[kind |-> k, rows |-> <<>>] : k \in {"raise", "nonjson", "scalar"}}
  \cup {[kind |-> "array", rows |-> rs] : rs \in SeqsUpTo(RowCatalogue, MAX_PATIENTS + 1)}

RECURSIVE Repeat(_, _)
Repeat(s, n) == IF n = 0 THEN <<>> ELSE s \o Repeat(s, n - 1)

\* the cap on extra columns, line 126
MaxExtraCols == 10

S_blank  == <<>>
S_space  == <<" ">>
S_fev    == <<"f","e","v","1","_","p","c","t"," ",":"," ","f","l","o","a","t">>
S_two    == <<"-"," ","a",":","i","n","t","\n","b",":","S","t","r">>
S_nocolon == <<"x">>
S_eleven == Repeat(<<"a",":","i","n","t","\n">>, MaxExtraCols + 1)
\* two lines declaring the same name, and a line declaring a core field name
S_dup    == <<"a",":","i","n","t","\n","a",":","s","t","r">>
S_core   == <<"a","g","e",":","i","n","t">>
PipelineSchemas ==
  {S_blank, S_space, S_fev, S_two, S_nocolon, S_eleven, S_dup, S_core}

Requests ==
  [icd_code     : {<<>>, C_J47, C_j47},
   icd_label    : {<<>>, L_Asthma},
   n            : 0..(MAX_PATIENTS + 1),
   files        : 0..1,
   extra_schema : PipelineSchemas]

(***************************************************************************)
(* State                                                                   *)
(***************************************************************************)
VARIABLES
  req,          \* the keyword arguments of generate_cohort
  pc,           \* the section of generate_cohort about to run
  extra_cols,   \* extra_cols, line 123
  ingest_calls, \* entries into data_ingest.ingest
  chat_calls,   \* calls of openai_utils.chat
  reply,        \* what chat() gave back
  idx,          \* idx of the validation loop, line 199
  rows,         \* rows, line 196
  seen_ids,     \* seen_ids, line 197
  err,          \* the exception that ended the run
  tmp_dir,      \* whether the directory of tempfile.mkdtemp() exists
  csv,          \* patients.csv
  meta,         \* run_meta.json
  zip,          \* the entries of cohort.zip
  returned,     \* whether (zip_path, run_id) was returned
  parse_out,    \* the result of a direct call of _parse_extra_schema
  schema_lines  \* the lines the text given to that call was written from

vars == <<req, pc, extra_cols, ingest_calls, chat_calls, reply, idx, rows,
          seen_ids, err, tmp_dir, csv, meta, zip, returned, parse_out, schema_lines>>

NoErr == [kind |-> "", row |-> 0, col |-> <<>>]
\* an exception: its kind, and the row index and column its message names
\* (0 and <<>> when the message names none)
Err(kind, row, col) == [kind |-> kind, row |-> row, col |-> col]

NoCsv  == [exists |-> FALSE, header |-> <<>>, data |-> <<>>]
NoMeta == [exists |-> FALSE, n_requested |-> 0, icd10_code |-> <<>>]
NoParse == [ok |-> FALSE, err |-> "notcalled", cols |-> <<>>]

Idle ==
  /\ extra_cols = <<>>
  /\ ingest_calls = 0
  /\ chat_calls = 0
  /\ reply = NoReply
  /\ idx = 0
  /\ rows = <<>>
  /\ seen_ids = {}
  /\ err = NoErr
  /\ tmp_dir = FALSE
  /\ csv = NoCsv
  /\ meta = NoMeta
  /\ zip = {}
  /\ returned = FALSE
  /\ parse_out = NoParse

Init ==
  /\ req \in Requests
  /\ pc = "guard"
  /\ schema_lines = <<>>
  /\ Idle

\* raise: the run ends with this exception
Raise(e) == pc' = "error" /\ err' = e

(***************************************************************************)
(* generate_cohort, one action per section of the function                 *)
(***************************************************************************)
\* lines 114-120: guard rails
Guard ==
  /\ pc = "guard"
  /\ IF req.n > MAX_PATIENTS
     THEN Raise(Err("n_max", 0, <<>>))
     ELSE IF req.icd_code = <<>> \/ req.icd_label = <<>>
     THEN Raise(Err("icd_missing", 0, <<>>))
     ELSE pc' = "schema" /\ err' = err
  /\ UNCHANGED <<req, extra_cols, ingest_calls, chat_calls, reply, idx, rows,
                 seen_ids, tmp_dir, csv, meta, zip, returned, parse_out, schema_lines>>

\* lines 122-127: dynamic columns
ParseSchema ==
  /\ pc = "schema"
  /\ IF Strip(req.extra_schema) = <<>>
     THEN pc' = "prompt" /\ err' = err /\ extra_cols' = extra_cols
     ELSE LET p == parse_extra_schema(req.extra_schema) IN
          IF ~p.ok
          THEN Raise(Err(p.err, 0, <<>>)) /\ extra_cols' = extra_cols
          ELSE /\ extra_cols' = p.cols
               /\ IF Len(p.cols) > MaxExtraCols
                  THEN Raise(Err("too_many_cols", 0, <<>>))
                  ELSE pc' = "prompt" /\ err' = err
  /\ UNCHANGED <<req, ingest_calls, chat_calls, reply, idx, rows, seen_ids,
                 tmp_dir, csv, meta, zip, returned, parse_out, schema_lines>>

\* the unpacking written for the pairs the parser returns
Unpack3Ok_Pairs(cols) == \A k \in DOMAIN cols : Len(cols[k]) = 2

\* "for nm, tp, _ in extra_cols": every element must unpack into three names
Unpack3Ok(cols) == \A k \in DOMAIN cols : Len(cols[k]) = 3

\* lines 129-152: prompt assembly; line 151 unpacks each extra column
PromptAssembly ==
  /\ pc = "prompt"
  /\ IF extra_cols # <<>> /\ ~Unpack3Ok(extra_cols)
     THEN Raise(Err("unpack", 0, <<>>))
     ELSE pc' = "context" /\ err' = err
  /\ UNCHANGED <<req, extra_cols, ingest_calls, chat_calls, reply, idx, rows,
                 seen_ids, tmp_dir, csv, meta, zip, returned, parse_out, schema_lines>>

\* data_ingest.py:50, "def ingest(uploaded_files)": one positional parameter
IngestParams == 1
\* pipeline.py:156, "ingest(files, notes)": two positional arguments
IngestCallArgs == 2

\* lines 154-163: context from reference documents. With files, ingest is
\* called; a call whose arguments do not fit the signature raises TypeError
\* before the body runs. What ingest returns is a list of (name, snippet)
\* pairs, which has no similarity_search.
Context ==
  /\ pc = "context"
  /\ IF req.files = 0
     THEN pc' = "format" /\ err' = err /\ ingest_calls' = ingest_calls
     ELSE IF IngestCallArgs # IngestParams
     THEN Raise(Err("ingest_args", 0, <<>>)) /\ ingest_calls' = ingest_calls
     ELSE Raise(Err("no_similarity_search", 0, <<>>))
          /\ ingest_calls' = ingest_calls + 1
  /\ UNCHANGED <<req, extra_cols, chat_calls, reply, idx, rows, seen_ids,
                 tmp_dir, csv, meta, zip, returned, parse_out, schema_lines>>

\* lines 165-180: strict JSON instruction; line 167 unpacks again
FormatDirective ==
  /\ pc = "format"
  /\ IF extra_cols # <<>> /\ ~Unpack3Ok(extra_cols)
     THEN Raise(Err("unpack", 0, <<>>))
     ELSE pc' = "chat" /\ err' = err
  /\ UNCHANGED <<req, extra_cols, ingest_calls, chat_calls, reply, idx, rows,
                 seen_ids, tmp_dir, csv, meta, zip, returned, parse_out, schema_lines>>

\* lines 182-188 and openai_utils.chat, lines 23-34: one call of the
\* completion service; an exception of the client propagates
CallChat ==
  /\ pc = "chat"
  /\ chat_calls' = chat_calls + 1
  /\ \E rep \in Replies :
       /\ reply' = rep
       /\ IF rep.kind = "raise"
          THEN Raise(Err("api", 0, <<>>))
          ELSE pc' = "json" /\ err' = err
  /\ UNCHANGED <<req, extra_cols, ingest_calls, idx, rows, seen_ids,
                 tmp_dir, csv, meta, zip, returned, parse_out, schema_lines>>

\* ParseJson asking the completion service again after a reply that is no JSON
ParseJson_Retry ==
  /\ pc = "json"
  /\ CASE reply.kind = "nonjson" ->
            pc' = "chat" /\ err' = err /\ UNCHANGED <<idx, rows, seen_ids>>
       [] reply.kind = "scalar" ->
            Raise(Err("not_iterable", 0, <<>>)) /\ UNCHANGED <<idx, rows, seen_ids>>
       [] OTHER ->
            /\ pc' = "validate" /\ err' = err
            /\ idx' = 1 /\ rows' = <<>> /\ seen_ids' = {}
  /\ UNCHANGED <<req, extra_cols, ingest_calls, chat_calls, reply,
                 tmp_dir, csv, meta, zip, returned, parse_out, schema_lines>>

\* lines 190-199: json.loads, then rows, seen_ids and the start of the loop
\* (enumerate of a JSON scalar raises TypeError)
ParseJson ==
  /\ pc = "json"
  /\ CASE reply.kind = "nonjson" ->
            Raise(Err("json", 0, <<>>)) /\ UNCHANGED <<idx, rows, seen_ids>>
       [] reply.kind = "scalar" ->
            Raise(Err("not_iterable", 0, <<>>)) /\ UNCHANGED <<idx, rows, seen_ids>>
       [] OTHER ->
            /\ pc' = "validate" /\ err' = err
            /\ idx' = 1 /\ rows' = <<>> /\ seen_ids' = {}
  /\ UNCHANGED <<req, extra_cols, ingest_calls, chat_calls, reply,
                 tmp_dir, csv, meta, zip, returned, parse_out, schema_lines>>

\* lines 214-222 on row r: the first extra column that is missing or has the
\* wrong type, as the exception raised, or NoErr
RECURSIVE ExtraCheck(_, _, _)
ExtraCheck(r, cols, i) ==
  IF cols = <<>> THEN NoErr
  ELSE IF Len(Head(cols)) # 3 THEN Err("unpack", 0, <<>>)
  ELSE LET col == Head(cols)[1]
           typ == Head(cols)[2]
       IN  IF ~Has(r, col) THEN Err("missing", i, col)
           ELSE IF ~TypeMatches(typ, r[col]) THEN Err("wrong_type", i, col)
           ELSE ExtraCheck(r, Tail(cols), i)

\* lines 199-224: one iteration of the validation loop
RowOutcome(r, i, seen) ==
  LET v == model_validate(r) IN
  IF v.res = "invalid" THEN Err("core", i, <<>>)
  ELSE IF v.res = "attr" THEN Err("attr", 0, <<>>)
  ELSE IF v.core.icd10_code # Upper(req.icd_code) THEN Err("icd_mismatch", i, <<>>)
  ELSE IF v.core.patient_id \in seen THEN Err("dup", 0, <<>>)
  ELSE ExtraCheck(r, extra_cols, i)

\* what line 224 appends to rows
Accepted(r) == r

ValidateRow ==
  /\ pc = "validate"
  /\ idx <= Len(reply.rows)
  /\ LET r == reply.rows[idx]
         e == RowOutcome(r, idx, seen_ids)
     IN  /\ seen_ids' = IF e.kind \in {"", "unpack", "missing", "wrong_type"}
                        THEN seen_ids \cup {model_validate(r).core.patient_id}
                        ELSE seen_ids
         /\ IF e.kind # ""
            THEN Raise(e) /\ UNCHANGED <<idx, rows>>
            ELSE /\ rows' = Append(rows, Accepted(r))
                 /\ idx' = idx + 1
                 /\ UNCHANGED <<pc, err>>
  /\ UNCHANGED <<req, extra_cols, ingest_calls, chat_calls, reply,
                 tmp_dir, csv, meta, zip, returned, parse_out, schema_lines>>

\* the count check accepting a reply that is short of n
CountOk_AtMost == Len(rows) <= req.n

\* lines 226-227: the loop is over; the count check
CountOk == Len(rows) = req.n

CountCheck ==
  /\ pc = "validate"
  /\ idx > Len(reply.rows)
  /\ IF ~CountOk
     THEN Raise(Err("count", 0, <<>>))
     ELSE pc' = "mkdtemp" /\ err' = err
  /\ UNCHANGED <<req, extra_cols, ingest_calls, chat_calls, reply, idx, rows,
                 seen_ids, tmp_dir, csv, meta, zip, returned, parse_out, schema_lines>>

\* lines 230-232: the temporary directory and the header
MkTmp ==
  /\ pc = "mkdtemp"
  /\ tmp_dir' = TRUE
  /\ pc' = "csv"
  /\ UNCHANGED <<req, extra_cols, ingest_calls, chat_calls, reply, idx, rows,
                 seen_ids, err, csv, meta, zip, returned, parse_out, schema_lines>>

\* line 232
Headers == CoreFields \o [k \in DOMAIN extra_cols |-> extra_cols[k][1]]

\* the text csv.writer writes for a value
CsvCell(v) ==
  CASE v.t = "str"   -> v.s
    [] v.t = "int"   -> IntToStr(v.i)
    [] v.t = "float" -> IntToStr(v.i) \o <<".">> \o v.s
    [] OTHER         -> IF v.i = 1 THEN <<"T","r","u","e">> ELSE <<"F","a","l","s","e">>

\* the data rows written last row first
CsvData_Reversed(rs, hs) ==
  [i \in DOMAIN rs |->
     [j \in DOMAIN hs |-> CsvCell(Get(rs[Len(rs) + 1 - i], hs[j]))]]

\* lines 237-238: one data row per element of rows, a cell per header
CsvData(rs, hs) ==
  [i \in DOMAIN rs |-> [j \in DOMAIN hs |-> CsvCell(Get(rs[i], hs[j]))]]

\* lines 234-238: patients.csv
WriteCsv ==
  /\ pc = "csv"
  /\ csv' = [exists |-> TRUE, header |-> Headers, data |-> CsvData(rows, Headers)]
  /\ pc' = "meta"
  /\ UNCHANGED <<req, extra_cols, ingest_calls, chat_calls, reply, idx, rows,
                 seen_ids, err, tmp_dir, meta, zip, returned, parse_out, schema_lines>>

\* lines 240-264: run_meta.json (the fields of it the model keeps)
MetaRecord == [exists |-> TRUE, n_requested |-> req.n, icd10_code |-> req.icd_code]

WriteMeta ==
  /\ pc = "meta"
  /\ meta' = MetaRecord
  /\ pc' = "zip"
  /\ UNCHANGED <<req, extra_cols, ingest_calls, chat_calls, reply, idx, rows,
                 seen_ids, err, tmp_dir, csv, zip, returned, parse_out, schema_lines>>

\* lines 266-270: cohort.zip
WriteZip ==
  /\ pc = "zip"
  /\ zip' = {"patients.csv", "run_meta.json"}
  /\ pc' = "return"
  /\ UNCHANGED <<req, extra_cols, ingest_calls, chat_calls, reply, idx, rows,
                 seen_ids, err, tmp_dir, csv, meta, returned, parse_out, schema_lines>>

\* line 272
Return ==
  /\ pc = "return"
  /\ returned' = TRUE
  /\ pc' = "done"
  /\ UNCHANGED <<req, extra_cols, ingest_calls, chat_calls, reply, idx, rows,
                 seen_ids, err, tmp_dir, csv, meta, zip, parse_out, schema_lines>>

Next ==
  \/ Guard
  \/ ParseSchema
  \/ PromptAssembly
  \/ Context
  \/ FormatDirective
  \/ CallChat
  \/ ParseJson
  \/ ValidateRow
  \/ CountCheck
  \/ MkTmp
  \/ WriteCsv
  \/ WriteMeta
  \/ WriteZip
  \/ Return

Spec == Init /\ [][Next]_vars

(***************************************************************************)
(* The packaging step when a write fails: open(), csv and zipfile writes   *)
(* raise OSError (a full or read-only disk), and generate_cohort has no    *)
(* try/finally around lines 230-270.                                       *)
(***************************************************************************)
PackagingRaises ==
  /\ pc \in {"csv", "meta", "zip"}
  /\ Raise(Err("os", 0, <<>>))
  /\ UNCHANGED <<req, extra_cols, ingest_calls, chat_calls, reply, idx, rows,
                 seen_ids, tmp_dir, csv, meta, zip, returned, parse_out, schema_lines>>

NextIO ==
  \/ Next
  \/ PackagingRaises

SpecIO == Init /\ [][NextIO]_vars

(***************************************************************************)
(* _parse_extra_schema called on its own (as app.py line 112 does)         *)
(***************************************************************************)
\* Schema lines and what each is: a well-formed "name : type" line with the
\* name and type it declares, a blank line, or an ill-formed line.
Line(text, kind, name, typ) == [text |-> text, kind |-> kind, name |-> name, typ |-> typ]
LineCatalogue ==
  { Line(<<"a",":","i","n","t">>, "good", <<"a">>, T_int),
    Line(<<"*"," ","b","1"," ",":"," ","F","l","o","a","t">>, "good", <<"b","1">>, T_float),
    Line(<<"-"," ","_","c",":","S","T","R"," ">>, "good", <<"_","c">>, T_str),
    Line(<<" "," ","d"," ",":","s","t","r">>, "good", <<"d">>, T_str),
    Line(<<>>, "blank", <<>>, <<>>),
    Line(<<" "," ">>, "blank", <<>>, <<>>),
    Line(<<"*"," ">>, "blank", <<>>, <<>>),
    Line(<<"x">>, "bad", <<>>, <<>>),
    Line(<<"a",":","b",":","i","n","t">>, "bad", <<>>, <<>>),
    Line(<<"1","a",":","i","n","t">>, "bad", <<>>, <<>>),
    Line(<<":","i","n","t">>, "bad", <<>>, <<>>),
    Line(<<"a"," ","b",":","i","n","t">>, "bad", <<>>, <<>>),
    Line(<<"a",":","i","n","t","e","g","e","r">>, "bad", <<>>, <<>>),
    Line(<<"a",":">>, "bad", <<>>, <<>>) }

\* "\n".join(lines)
RECURSIVE JoinLines(_)
JoinLines(ls) ==
  IF ls = <<>> THEN <<>>
  ELSE IF Len(ls) = 1 THEN ls[1].text
  ELSE ls[1].text \o <<"\n">> \o JoinLines(Tail(ls))

InitParse ==
  /\ schema_lines \in SeqsUpTo(LineCatalogue, MaxLines)
  /\ req = [icd_code |-> C_J47, icd_label |-> L_Asthma, n |-> 1, files |-> 0,
            extra_schema |-> JoinLines(schema_lines)]
  /\ pc = "parse"
  /\ Idle

ApplyParser ==
  /\ pc = "parse"
  /\ parse_out' = parse_extra_schema(req.extra_schema)
  /\ pc' = "parsed"
  /\ UNCHANGED <<req, extra_cols, ingest_calls, chat_calls, reply, idx, rows,
                 seen_ids, err, tmp_dir, csv, meta, zip, returned, schema_lines>>

NextParse == ApplyParser

SpecParse == InitParse /\ [][NextParse]_vars

(***************************************************************************)
(* Properties                                                              *)
(***************************************************************************)
Terminated == pc \in {"done", "error"}
Packaging  == pc \in {"mkdtemp", "csv", "meta", "zip", "return", "done"}

\* row r passed every check of the validation loop for this request
RowValidated(r) ==
  /\ model_validate(r).res = "ok"
  /\ model_validate(r).core.icd10_code = Upper(req.icd_code)

C2_AcceptedRowsCanonical ==
  \A i \in DOMAIN rows :
    /\ rows[i][F_age].t = "int"
    /\ rows[i][F_age].i \in 0..120
    /\ rows[i][F_sex].s \in {<<"F">>, <<"M">>}
    /\ rows[i][F_ethnicity].s \in {E_Hisp, E_NotHisp}
    /\ rows[i][F_icd10_code].s = Strip(Upper(req.icd_code))

\* C3: at every point of the validation loop the accepted rows have pairwise
\* distinct, non-empty patient_id values.
C3_UniqueNonEmptyIds ==
  \A i \in DOMAIN rows :
    /\ rows[i][F_patient_id].s # <<>>
    /\ \A j \in DOMAIN rows :
         i # j => rows[i][F_patient_id].s # rows[j][F_patient_id].s

\* C4: a run with a declared extra-column schema checks every row against
\* every declared column, so such a run (valid otherwise, no documents) that
\* fails does so on the reply, with an error of the completion call or of
\* the reply's validation, never on the declared columns themselves.
C4_ExtraColumnsChecked ==
  (pc = "error" /\ extra_cols # <<>> /\ Len(extra_cols) <= MaxExtraCols
     /\ req.files = 0) =>
    /\ chat_calls = 1
    /\ err.kind \in {"api", "json", "not_iterable", "core", "attr",
                     "icd_mismatch", "dup", "missing", "wrong_type", "count"}

\* C5: n = MAX_PATIENTS passes the size guard; n > MAX_PATIENTS fails with the
\* input error before any external call; and a run past the guard has
\* 1 <= n <= MAX_PATIENTS.
C5_SizeGuard ==
  /\ (req.n = MAX_PATIENTS /\ pc = "error") => err.kind # "n_max"
  /\ (req.n > MAX_PATIENTS /\ pc # "guard") =>
       /\ pc = "error" /\ err.kind = "n_max"
       /\ ingest_calls = 0 /\ chat_calls = 0
  /\ pc \notin {"guard", "error"} => (1 <= req.n /\ req.n <= MAX_PATIENTS)

\* C6: whenever a run ends with an error, no temporary directory created
\* during the run still exists.
C6_NoTmpDirAfterError ==
  pc = "error" => ~tmp_dir

\* the columns the well-formed lines of ls declare, in line order
RECURSIVE DeclaredCols(_)
DeclaredCols(ls) ==
  IF ls = <<>> THEN <<>>
  ELSE IF Head(ls).kind = "good"
  THEN <<<<Head(ls).name, Head(ls).typ>>>> \o DeclaredCols(Tail(ls))
  ELSE DeclaredCols(Tail(ls))

\* C7: a text of k well-formed lines (and blank ones) parses to exactly the k
\* declared columns in line order, with lower-cased types; with k = 0 the
\* parse fails with "no columns"; any ill-formed line fails the parse.
C7_ParserResult ==
  pc = "parsed" =>
    IF \E k \in DOMAIN schema_lines : schema_lines[k].kind = "bad"
    THEN ~parse_out.ok /\ parse_out.err \in {"colon", "name", "type"}
    ELSE IF DeclaredCols(schema_lines) = <<>>
    THEN ~parse_out.ok /\ parse_out.err = "nocols"
    ELSE /\ parse_out.ok
         /\ parse_out.cols = DeclaredCols(schema_lines)
         /\ \A k \in DOMAIN parse_out.cols : parse_out.cols[k][2] \in AllowedTypes

\* C7 witness: two well-formed lines, one with a bullet and a mixed-case
\* type, parsed to two columns in line order
C7_Witness ==
  /\ pc = "parsed"
  /\ parse_out.ok
  /\ parse_out.cols = << <<<<"a">>, T_int>>, <<<<"b","1">>, T_float>> >>

\* a reply object in canonical form carrying the requested code
WellFormedRow(r) ==
  /\ DOMAIN r = Range(CoreFields)
  /\ \A k \in Range(CoreFields) \ {F_age} : r[k].t = "str"
  /\ r[F_age].t = "int" /\ r[F_age].i \in 0..120
  /\ r[F_sex].s \in {<<"F">>, <<"M">>}
  /\ r[F_ethnicity].s \in {E_Hisp, E_NotHisp}
  /\ r[F_icd10_code].s = req.icd_code
WellFormedReply ==
  /\ reply.kind = "array"
  /\ Len(reply.rows) = req.n
  /\ \A i \in DOMAIN reply.rows : WellFormedRow(reply.rows[i])
  /\ \A i, j \in DOMAIN reply.rows :
       i # j => reply.rows[i][F_patient_id].s # reply.rows[j][F_patient_id].s

\* the line of the tabular file for a well-formed object
ExpectedLine(r) ==
  <<r[F_patient_id].s, IntToStr(r[F_age].i), r[F_sex].s, r[F_race].s,
    r[F_ethnicity].s, r[F_icd10_code].s, r[F_diagnosis].s>>

\* C8: with no documents and no extra columns, a reply of exactly n
\* well-formed objects with the requested code and distinct ids makes the
\* run succeed; the tabular file has the 7 core fields as header, in
\* canonical order, then one line per object in reply order, and the
\* metadata's n_requested is n.
C8_SuccessfulPackaging ==
  (Terminated /\ req.files = 0 /\ Strip(req.extra_schema) = <<>>
     /\ WellFormedReply) =>
    /\ pc = "done"
    /\ csv.exists
    /\ csv.header = <<F_patient_id, F_age, F_sex, F_race, F_ethnicity,
                      F_icd10_code, F_diagnosis>>
    /\ Len(csv.data) = req.n
    /\ \A i \in DOMAIN csv.data : csv.data[i] = ExpectedLine(reply.rows[i])
    /\ meta.exists /\ meta.n_requested = req.n

\* C8 witness: the scenario of the claim, "J47" with n = 2 and two objects
C8_Witness ==
  /\ pc = "done"
  /\ req.icd_code = C_J47 /\ req.n = 2
  /\ reply.rows = <<RowGood1, RowGood2>>
  /\ Len(csv.data) = 2

\* C9: every row-level rejection is an error naming the 1-based index of the
\* offending row, which is the row the loop stopped at, every row before it
\* having been accepted.
RowErrorKinds == {"core", "attr", "icd_mismatch", "dup", "missing", "wrong_type"}
C9_RowErrorsNameRow ==
  (pc = "error" /\ err.kind \in RowErrorKinds) =>
    /\ err.row = idx
    /\ idx \in 1..Len(reply.rows)
    /\ Len(rows) = idx - 1

\* C10: the completion service is called at most once in a run: not before
\* the input checks and prompt assembly have passed, exactly once after,
\* never again after an error, and every error ends the run.
PreChatErrors ==
  {"n_max", "icd_missing", "colon", "name", "type", "nocols", "too_many_cols",
   "unpack", "ingest_args", "no_similarity_search"}
C10_ChatCalledOnce ==
  /\ chat_calls <= 1
  /\ pc \in {"guard", "schema", "prompt", "context", "format", "chat"} =>
       chat_calls = 0
  /\ pc \in {"json", "validate"} \/ Packaging => chat_calls = 1
  /\ pc = "error" =>
       /\ chat_calls = IF reply.kind = "none" THEN 0 ELSE 1
       /\ reply.kind = "none" <=> err.kind \in PreChatErrors
       /\ ~ENABLED Next

\* C10 witness: a run ended by a reply that is no JSON, after one call
C10_Witness == pc = "error" /\ err.kind = "json" /\ chat_calls = 1


\* C11: the extra-column list a run goes on to use (for the prompt, the row
\* checks and the header) has only identifier names and types of
\* {int, float, str}, at most 10 columns, no name twice and no name of a
\* core field.
C11_ColumnSpecInvariant ==
  pc \notin {"guard", "schema", "error"} =>
    /\ Len(extra_cols) <= MaxExtraCols
    /\ \A k \in DOMAIN extra_cols :
         /\ IsIdentifier(extra_cols[k][1])
         /\ extra_cols[k][2] \in AllowedTypes
         /\ extra_cols[k][1] \notin Range(CoreFields)
         /\ \A j \in DOMAIN extra_cols :
              j # k => extra_cols[j][1] # extra_cols[k][1]


NoArtifact ==
  ~tmp_dir /\ ~csv.exists /\ ~meta.exists /\ zip = {} /\ ~returned

\* C12: a run gets to the completion call only with a blank extra schema and
\* no documents. A run whose schema parsed to columns ends in prompt assembly
\* on the unpacking error (unless the cap on columns ended it before); a run
\* with documents that gets to the ingestion call ends there on the argument
\* error; either way chat was not called and nothing was written.
C12_ChatOnlyBlankSchemaNoFiles ==
  /\ (chat_calls > 0 \/ pc \in {"chat", "json", "validate"} \/ Packaging) =>
       /\ Strip(req.extra_schema) = <<>>
       /\ extra_cols = <<>>
       /\ req.files = 0
  /\ extra_cols # <<>> =>
       /\ chat_calls = 0 /\ ingest_calls = 0 /\ NoArtifact
       /\ \/ pc = "prompt"
          \/ pc = "error" /\ err.kind \in {"unpack", "too_many_cols"}
  /\ (pc = "error" /\ extra_cols # <<>> /\ Len(extra_cols) <= MaxExtraCols) =>
       err.kind = "unpack"
  /\ req.files > 0 =>
       /\ chat_calls = 0 /\ ingest_calls = 0 /\ NoArtifact
       /\ pc \in {"guard", "schema", "prompt", "context", "error"}
  /\ (pc = "error" /\ req.files > 0 /\ extra_cols = <<>>
        /\ err.kind \notin {"n_max", "icd_missing", "colon", "name", "type", "nocols"}) =>
       err.kind = "ingest_args"

\* C12 witness: a run with one declared column, ended in prompt assembly by
\* the unpacking error before any call of chat
C12_Witness ==
  /\ pc = "error" /\ err.kind = "unpack"
  /\ req.extra_schema = S_fev /\ Len(extra_cols) = 1
  /\ chat_calls = 0 /\ NoArtifact

====
